---- MODULE Spec2Model ----
(***************************************************************************)
(* A model of yami (src/main.cc): a line calculator made of a Tokenizer,   *)
(* a Pratt parser driven by a rule table, a tree-walking Evaluator and the *)
(* read loop of main().                                                    *)
(*                                                                         *)
(* Characters are one-character strings, a std::string is a sequence of    *)
(* them, iterators and the cursor current_ are zero-based offsets as in    *)
(* the source.  The parser's recursion is made explicit as a stack of call *)
(* frames, so that a recursion that never returns is a behaviour of the    *)
(* model.  The input stream is taken to deliver a line to every getline.   *)
(***************************************************************************)
EXTENDS Integers, Sequences, FiniteSets, TLC

----------------------------------------------------------------------------
(* Bounds of the model.                                                    *)

\* longest line read by main() / source given to a Tokenizer
MaxLen == 3
\* most tokens before EndOfInput handed to a parser in ParserSpec
MaxTokens == 5
\* most calls of lex() on one Tokenizer object in TokenizerSpec
MaxLexCalls == 2

\* The call stack is finite: a recursion deeper than this many frames ends in
\* a stack overflow.  A parse that advances the cursor on every call needs at
\* most 2n-1 frames for n tokens, so only a runaway recursion gets here.
StackLimit == 2 * (MaxTokens + MaxLen) + 2

----------------------------------------------------------------------------
(* Characters.                                                             *)

\* the terminator std::string keeps at source_[size()]
NUL == "NUL"

IsSpace(c) == c \in {" ", "\t", "\n", "\r", "\f"}

IsDigit(c) == c \in {"0", "1", "2", "3", "4", "5", "6", "7", "8", "9"}

\* the characters lines are built from: digits, a blank, the four operators,
\* the two characters of the number syntax and one character of no token
Alphabet == {"1", "2", " ", "+", "-", "*", "/", ".", "e", "&"}

Lines == UNION {[1..n -> Alphabet] : n \in 0..MaxLen}

ExitLine == <<"e", "x", "i", "t">>

\* *it for an iterator at offset it <= size(): the character, or the terminator
CharAt(src, it) == IF it < Len(src) THEN src[it + 1] ELSE NUL

----------------------------------------------------------------------------
(* Tokens.                                                                 *)

TokenType == {"number", "minus", "plus", "slash", "star", "eof"}

Token(type, lexeme) == [type_ |-> type, lexeme_ |-> lexeme]

Kinds(toks) == [i \in 1..Len(toks) |-> toks[i].type_]

----------------------------------------------------------------------------
(* Tokenizer.                                                              *)

RECURSIVE SkipDigitsAndDots(_, _)
\* the digit loop as if it took '.' for a digit
SkipDigitsAndDots(src, it) ==
    IF (IsDigit(CharAt(src, it)) \/ CharAt(src, it) = ".") /\ it < Len(src)
       THEN SkipDigitsAndDots(src, it + 1)
       ELSE it

RECURSIVE SkipDigits(_, _)
\* while(std::isdigit(*it) && it < end) it++;
SkipDigits(src, it) ==
    IF IsDigit(CharAt(src, it)) /\ it < Len(src)
       THEN SkipDigits(src, it + 1)
       ELSE it

\* lexNumber(it, end): the offset it leaves the iterator at
LexNumber(src, it) ==
    LET a == SkipDigits(src, it)
        b == IF CharAt(src, a) = "." THEN SkipDigits(src, a + 1) ELSE a
    IN  IF CharAt(src, b) # "e"
           THEN b
           ELSE LET c == b + 1
                    d == IF CharAt(src, c) \in {"-", "+"} THEN c + 1 ELSE c
                IN  SkipDigits(src, d)

OperatorType(c) ==
    CASE c = "+" -> "plus"
      [] c = "-" -> "minus"
      [] c = "*" -> "star"
      [] c = "/" -> "slash"

IsOperator(c) == c \in {"+", "-", "*", "/"}

NoPosition == "none"

RECURSIVE LexLoop(_, _, _)
\* The for loop of lex() from iterator offset it with tokens_ = toks, and what
\* follows it.  A number is followed by `continue`, which runs the it++ of the
\* for statement on the iterator lexNumber has already moved past the lexeme.
LexLoop(src, it, toks) ==
    IF ~(it < Len(src))
       THEN [tokens |-> Append(toks, Token("eof", <<NUL>>)),
             hadError |-> FALSE, position |-> NoPosition]
       ELSE LET c == src[it + 1] IN
            IF IsSpace(c)
               THEN LexLoop(src, it + 1, toks)
            ELSE IF IsDigit(c)
               THEN LET stop == LexNumber(src, it) IN
                    LexLoop(src, stop + 1,
                            Append(toks, Token("number", SubSeq(src, it + 1, stop))))
            ELSE IF IsOperator(c)
               THEN LexLoop(src, it + 1, Append(toks, Token(OperatorType(c), <<c>>)))
            ELSE [tokens |-> toks, hadError |-> TRUE, position |-> it]

\* lex() on a Tokenizer whose tokens_ member holds toks
Lex(src, toks) == LexLoop(src, 0, toks)

\* What emitError prints for a %u: it hands printf the va_list itself instead
\* of calling vprintf, so the conversion reads an unspecified value and not the
\* argument that was passed.
EmitErrorPrints(arg) == 0..MaxLen

----------------------------------------------------------------------------
(* Rule table.                                                             *)

NONE == 0
TERM == 1
FACTOR == 2
UNARY == 3
PRIMARY == 4

Rule(prec, prefix, infix) == [precedence |-> prec, infix |-> infix, prefix |-> prefix]

\* registerAllRules(): rules_ after construction
Rules ==
    [t \in TokenType |->
        CASE t = "plus"   -> Rule(TERM, "unary", "binary")
          [] t = "minus"  -> Rule(TERM, "unary", "binary")
          [] t = "star"   -> Rule(FACTOR, "nullptr", "binary")
          [] t = "slash"  -> Rule(FACTOR, "nullptr", "binary")
          [] t = "number" -> Rule(PRIMARY, "primary", "nullptr")
          [] t = "eof"    -> Rule(NONE, "nullptr", "nullptr")]

\* rules_[type]: operator[] of the map answers a value-initialised rule for a
\* type that was never registered
GetRule(type) ==
    IF type \in DOMAIN Rules THEN Rules[type] ELSE Rule(NONE, "nullptr", "nullptr")

----------------------------------------------------------------------------
(* Doubles.  A value is a fraction n/d in lowest terms with d > 0; d = 0   *)
(* stands for the special values: 1/0 is +infinity, -1/0 is -infinity and  *)
(* 0/0 is not-a-number.  Rounding is not modelled.                         *)

Abs(x) == IF x < 0 THEN -x ELSE x

Sign(x) == IF x < 0 THEN -1 ELSE IF x > 0 THEN 1 ELSE 0

RECURSIVE GCD(_, _)
GCD(a, b) == IF b = 0 THEN a ELSE GCD(b, a % b)

Value(n, d) ==
    IF d = 0 THEN [n |-> Sign(n), d |-> 0]
    ELSE LET g == GCD(Abs(n), Abs(d)) IN
         [n |-> (Sign(d) * n) \div g, d |-> Abs(d) \div g]

NaN == Value(0, 0)

Neg(a) == [n |-> -a.n, d |-> a.d]

Add(a, b) ==
    IF a.d = 0 /\ b.d = 0
       THEN (IF a.n = b.n THEN a ELSE NaN)
       ELSE Value(a.n * b.d + b.n * a.d, a.d * b.d)

Sub(a, b) == Add(a, Neg(b))

Mul(a, b) == Value(a.n * b.n, a.d * b.d)

Div(a, b) ==
    IF b.n < 0
       THEN Value(-(a.n * b.d), a.d * (-b.n))
       ELSE Value(a.n * b.d, a.d * b.n)

RECURSIVE Pow10(_)
Pow10(k) == IF k = 0 THEN 1 ELSE 10 * Pow10(k - 1)

DigitValue(c) ==
    CASE c = "0" -> 0 [] c = "1" -> 1 [] c = "2" -> 2 [] c = "3" -> 3
      [] c = "4" -> 4 [] c = "5" -> 5 [] c = "6" -> 6 [] c = "7" -> 7
      [] c = "8" -> 8 [] c = "9" -> 9

RECURSIVE Decimal(_)
Decimal(digits) ==
    IF digits = <<>> THEN 0
    ELSE 10 * Decimal(SubSeq(digits, 1, Len(digits) - 1)) + DigitValue(digits[Len(digits)])

\* std::strtod(lexeme, nullptr) on a string that starts like a lexeme of the
\* tokenizer: the longest prefix digits [. digits] [e [sign] digits] is
\* converted, an exponent without digits is left out, no digits at all give 0.
Strtod(s) ==
    LET a == SkipDigits(s, 0)
        dot == CharAt(s, a) = "."
        b == IF dot THEN SkipDigits(s, a + 1) ELSE a
        frac == IF dot THEN SubSeq(s, a + 2, b) ELSE <<>>
        mant == Value(Decimal(SubSeq(s, 1, a)) * Pow10(Len(frac)) + Decimal(frac),
                      Pow10(Len(frac)))
        c == b + 1
        neg == CharAt(s, c) = "-"
        d == IF CharAt(s, c) \in {"-", "+"} THEN c + 1 ELSE c
        f == SkipDigits(s, d)
        exp == IF CharAt(s, b) \in {"e", "E"} /\ f > d
                  THEN Decimal(SubSeq(s, d + 1, f)) ELSE 0
    IN  IF a = 0 THEN Value(0, 1)
        ELSE IF neg THEN Div(mant, Value(Pow10(exp), 1))
        ELSE Mul(mant, Value(Pow10(exp), 1))

----------------------------------------------------------------------------
(* Expression trees.                                                       *)

\* nullptr
NULL == [kind |-> "nullptr"]

LiteralExpr(value) == [kind |-> "Literal", value_ |-> value]

UnaryExpr(op, right) == [kind |-> "Unary", op_ |-> op, right_ |-> right]

BinaryExpr(op, left, right) ==
    [kind |-> "Binary", op_ |-> op, left_ |-> left, right_ |-> right]

RECURSIVE EvaluateExpression(_)
\* Evaluator::evaluateExpression.  dynamic_cast of a null pointer fails for
\* each of the three classes, so a null expression falls through to NAN.
EvaluateExpression(expr) ==
    IF expr.kind = "Binary"
       THEN LET left == EvaluateExpression(expr.left_)
                right == EvaluateExpression(expr.right_)
            IN  CASE expr.op_ = "plus"  -> Add(left, right)
                  [] expr.op_ = "minus" -> Sub(left, right)
                  [] expr.op_ = "star"  -> Mul(left, right)
                  [] expr.op_ = "slash" -> Div(left, right)
                  [] OTHER -> NaN
    ELSE IF expr.kind = "Unary"
       THEN LET right == EvaluateExpression(expr.right_)
            IN  CASE expr.op_ = "plus"  -> right
                  [] expr.op_ = "minus" -> Neg(right)
                  [] OTHER -> NaN
    ELSE IF expr.kind = "Literal"
       THEN expr.value_
    ELSE NaN

----------------------------------------------------------------------------
(* State.                                                                  *)

VARIABLES
    pc,              \* where main() is: "read" (line 354), "lex" (357), "parse"
                     \* (364, before the call), "parsing" (inside parse()),
                     \* "parsed" (365), "done" (371), "crashed" (process killed);
                     \* "tokenizer" for a Tokenizer object used on its own
    line,            \* main's line, which is the Tokenizer's source_
    tokens_,         \* Tokenizer::tokens_, copied to main's tokens and to
                     \* PrattParser::tokens_
    tokenizerError,  \* hadError_ of the Tokenizer
    printedColumn,   \* the column printed by the Tokenizer's emitError
    lexReturns,      \* the sequences the calls of lex() on this Tokenizer returned
    current_,        \* PrattParser::current_
    parserError,     \* hadError_ of the PrattParser
    stack,           \* the parser's call frames, innermost last
    ret,             \* the Expr* a call has just returned, NoReturn otherwise
    calls,           \* number of parsePrecedence calls made by this parser
    wild,            \* what the memory at tokens_[current_ - 1] holds when
                     \* current_ is 0, once it has been read
    fault,           \* why the process was killed
    ast,             \* main's ast
    printed          \* what line 368 printed for this line

vars == <<pc, line, tokens_, tokenizerError, printedColumn, lexReturns, current_,
          parserError, stack, ret, calls, wild, fault, ast, printed>>

tokenizerVars == <<tokens_, tokenizerError, printedColumn, lexReturns>>

parserVars == <<current_, parserError, stack, ret, calls, wild>>

NoReturn == [kind |-> "no return"]

Unread == [type_ |-> "unread", lexeme_ |-> <<>>]

NoOutput == "nothing"

NoColumn == "nothing"

\* the objects of one iteration of the read loop, before any of them is built
FreshTokenizer ==
    /\ tokens_ = <<>>
    /\ tokenizerError = FALSE
    /\ printedColumn = NoColumn
    /\ lexReturns = <<>>

FreshParser ==
    /\ current_ = 0
    /\ parserError = FALSE
    /\ stack = <<>>
    /\ ret = NoReturn
    /\ calls = 0
    /\ wild = Unread

FreshResult ==
    /\ fault = "none"
    /\ ast = NULL
    /\ printed = NoOutput

\* main() before the first prompt
Init ==
    /\ pc = "read"
    /\ line = <<>>
    /\ FreshTokenizer
    /\ FreshParser
    /\ FreshResult

----------------------------------------------------------------------------
(* The read loop up to the call of parse().                                *)

\* lines 353-355: read a line, leave the loop on "exit".  The objects of the
\* previous iteration are gone.
ReadLine ==
    /\ pc = "read"
    /\ \E l \in Lines \cup {ExitLine} :
          /\ line' = l
          /\ pc' = IF l = ExitLine THEN "done" ELSE "lex"
    /\ tokens_' = <<>>
    /\ tokenizerError' = FALSE
    /\ printedColumn' = NoColumn
    /\ lexReturns' = <<>>
    /\ current_' = 0
    /\ parserError' = FALSE
    /\ stack' = <<>>
    /\ ret' = NoReturn
    /\ calls' = 0
    /\ wild' = Unread
    /\ fault' = "none"
    /\ ast' = NULL
    /\ printed' = NoOutput

\* lines 357-362: build a Tokenizer for the line, call lex(), go back to the
\* prompt when it failed, build the parser otherwise
LexLine ==
    /\ pc = "lex"
    /\ LET r == Lex(line, <<>>) IN
          /\ tokens_' = r.tokens
          /\ tokenizerError' = r.hadError
          /\ lexReturns' = <<r.tokens>>
          /\ IF r.hadError
                THEN /\ printedColumn' \in EmitErrorPrints(r.position)
                     /\ pc' = "read"
                ELSE /\ printedColumn' = NoColumn
                     /\ pc' = "parse"
    /\ UNCHANGED <<line, parserVars, fault, ast, printed>>

\* a further call of lex() on one Tokenizer object
LexCall ==
    /\ pc = "tokenizer"
    /\ Len(lexReturns) < MaxLexCalls
    /\ LET r == Lex(line, tokens_) IN
          /\ tokens_' = r.tokens
          /\ tokenizerError' = (tokenizerError \/ r.hadError)
          /\ lexReturns' = Append(lexReturns, r.tokens)
          /\ IF r.hadError
                THEN printedColumn' \in EmitErrorPrints(r.position)
                ELSE UNCHANGED printedColumn
    /\ UNCHANGED <<pc, line, parserVars, fault, ast, printed>>

----------------------------------------------------------------------------
(* PrattParser.                                                            *)

\* A call frame.  fn is the function; at is where it stands: a parsePrecedence
\* frame is at "advance" (line 236), "prefix" (inside the call of line 247),
\* "loop" (line 249) or "infix" (inside the call of line 252); a binary or unary
\* frame is inside its call of parsePrecedence (lines 264, 270).
Frame(fn, at, precedence, op, expr) ==
    [fn |-> fn, at |-> at, precedence |-> precedence, op |-> op, expr |-> expr]

PrecedenceFrame(precedence) == Frame("parsePrecedence", "advance", precedence, "none", NULL)

Top == stack[Len(stack)]

Pop == SubSeq(stack, 1, Len(stack) - 1)

\* the stack with its innermost frame replaced
Replace(frame) == Append(Pop, frame)

\* peek(): tokens_[current_]
Peek == tokens_[current_ + 1]

\* isAtEnd()
IsAtEnd == Peek.type_ = "eof"

\* current_ after advance(): if(!isAtEnd()) current_++;
Advanced == IF IsAtEnd THEN current_ ELSE current_ + 1

\* what an out-of-bounds read of a Token may find: a type byte that is one of
\* the registered types or not, and some lexeme
WildTokens ==
    {Token(t, l) : t \in TokenType \cup {"unregistered"}, l \in {<<>>, <<"1">>}}

\* previous() with the cursor at cur: tokens_[cur - 1].  The index is unsigned,
\* so with cur = 0 it is 2^32 - 1 and the read is outside the vector: the same
\* memory holds the same token each time it is read.
Previous(cur) ==
    IF cur >= 1 THEN {tokens_[cur]}
    ELSE IF wild = Unread THEN WildTokens
    ELSE {wild}

Remember(cur, token) == IF cur >= 1 THEN wild ELSE token

\* primary(): the literal of the token just consumed
Primary(token) ==
    IF token.type_ = "number"
       THEN [expr |-> LiteralExpr(Strtod(token.lexeme_)), error |-> FALSE]
       ELSE [expr |-> NULL, error |-> TRUE]

\* the precedence binary() asks of its right operand, as if it asked for the
\* operator's own precedence
RightPrecedenceSame(op) == GetRule(op).precedence

\* the precedence binary() asks of its right operand (line 264)
RightPrecedence(op) == GetRule(op).precedence + 1

Running == pc = "parsing" /\ stack # <<>> /\ ret = NoReturn

AtAdvance == Running /\ Top.fn = "parsePrecedence" /\ Top.at = "advance"

AtLoop == Running /\ Top.fn = "parsePrecedence" /\ Top.at = "loop"

Unchanged == UNCHANGED <<line, tokenizerVars>>

\* line 364: parser.parse() calls expression(), which calls parsePrecedence(TERM)
ParseCall ==
    /\ pc = "parse"
    /\ pc' = "parsing"
    /\ stack' = <<PrecedenceFrame(TERM)>>
    /\ calls' = 1
    /\ UNCHANGED <<current_, parserError, ret, wild, fault, ast, printed>>
    /\ Unchanged

\* lines 236-245: the token advance() returns has no prefix action
PrefixMissing ==
    /\ AtAdvance
    /\ \E token \in Previous(Advanced) :
          /\ GetRule(token.type_).prefix = "nullptr"
          /\ wild' = Remember(Advanced, token)
    /\ current_' = Advanced
    /\ parserError' = TRUE
    /\ stack' = Pop
    /\ ret' = NULL
    /\ UNCHANGED <<pc, calls, fault, ast, printed>>
    /\ Unchanged

\* lines 236-247 with primary() as the prefix action
PrefixPrimary ==
    /\ AtAdvance
    /\ \E token \in Previous(Advanced) :
          /\ GetRule(token.type_).prefix = "primary"
          /\ wild' = Remember(Advanced, token)
          /\ parserError' = (parserError \/ Primary(token).error)
          /\ stack' = Replace([Top EXCEPT !.at = "loop", !.expr = Primary(token).expr])
    /\ current_' = Advanced
    /\ UNCHANGED <<pc, ret, calls, fault, ast, printed>>
    /\ Unchanged

\* lines 236-247 with unary() as the prefix action, up to its call of
\* parsePrecedence(UNARY) (lines 269-270)
PrefixUnary ==
    /\ AtAdvance
    /\ Len(stack) + 2 <= StackLimit
    /\ \E token \in Previous(Advanced) :
          /\ GetRule(token.type_).prefix = "unary"
          /\ wild' = Remember(Advanced, token)
          /\ stack' = Replace([Top EXCEPT !.at = "prefix"])
                         \o <<Frame("unary", "call", NONE, token.type_, NULL),
                              PrecedenceFrame(UNARY)>>
    /\ current_' = Advanced
    /\ calls' = calls + 1
    /\ UNCHANGED <<pc, parserError, ret, fault, ast, printed>>
    /\ Unchanged

\* the same call when the stack has no room left for its frames
PrefixUnaryOverflow ==
    /\ AtAdvance
    /\ Len(stack) + 2 > StackLimit
    /\ \E token \in Previous(Advanced) :
          /\ GetRule(token.type_).prefix = "unary"
          /\ wild' = Remember(Advanced, token)
    /\ current_' = Advanced
    /\ pc' = "crashed"
    /\ fault' = "stack overflow"
    /\ UNCHANGED <<parserError, stack, ret, calls, ast, printed>>
    /\ Unchanged

\* line 237 when previous() is outside the vector and the page it names is
\* not mapped
PreviousFault ==
    /\ AtAdvance
    /\ Advanced = 0
    /\ wild = Unread
    /\ current_' = Advanced
    /\ pc' = "crashed"
    /\ fault' = "out-of-bounds read"
    /\ UNCHANGED <<parserError, stack, ret, calls, wild, ast, printed>>
    /\ Unchanged

\* lines 249-252 and 263-264: the next token binds at least as tightly as asked,
\* and its infix action binary() calls parsePrecedence for the right operand.
\* The cursor has advanced for each frame below this call, so the stack has
\* room for it.
InfixBinary ==
    /\ AtLoop
    /\ Top.precedence <= GetRule(Peek.type_).precedence
    /\ GetRule(tokens_[Advanced].type_).infix = "binary"
    /\ current_' = Advanced
    /\ LET op == tokens_[Advanced].type_ IN
          stack' = Replace([Top EXCEPT !.at = "infix"])
                      \o <<Frame("binary", "call", NONE, op, Top.expr),
                           PrecedenceFrame(RightPrecedence(op))>>
    /\ calls' = calls + 1
    /\ UNCHANGED <<pc, parserError, ret, wild, fault, ast, printed>>
    /\ Unchanged

\* lines 249-252: the next token binds at least as tightly as asked and has no
\* infix action: line 252 calls through a null pointer to member
InfixMissing ==
    /\ AtLoop
    /\ Top.precedence <= GetRule(Peek.type_).precedence
    /\ GetRule(tokens_[Advanced].type_).infix = "nullptr"
    /\ current_' = Advanced
    /\ pc' = "crashed"
    /\ fault' = "call of a null infix action"
    /\ UNCHANGED <<parserError, stack, ret, calls, wild, ast, printed>>
    /\ Unchanged

\* lines 249 and 255: the next token binds less tightly than asked
PrecedenceReturn ==
    /\ AtLoop
    /\ ~(Top.precedence <= GetRule(Peek.type_).precedence)
    /\ stack' = Pop
    /\ ret' = Top.expr
    /\ UNCHANGED <<pc, current_, parserError, calls, wild, fault, ast, printed>>
    /\ Unchanged

\* lines 271 and 247: unary() wraps what its call returned, and the caller
\* takes the node as its expr
UnaryReturn ==
    /\ pc = "parsing"
    /\ ret # NoReturn
    /\ stack # <<>>
    /\ Top.fn = "unary"
    /\ LET node == UnaryExpr(Top.op, ret)
           caller == stack[Len(stack) - 1]
       IN  stack' = Append(SubSeq(stack, 1, Len(stack) - 2),
                           [caller EXCEPT !.at = "loop", !.expr = node])
    /\ ret' = NoReturn
    /\ UNCHANGED <<pc, current_, parserError, calls, wild, fault, ast, printed>>
    /\ Unchanged

\* lines 265 and 252: binary() wraps its left operand and what its call
\* returned, and the caller takes the node as its expr
BinaryReturn ==
    /\ pc = "parsing"
    /\ ret # NoReturn
    /\ stack # <<>>
    /\ Top.fn = "binary"
    /\ LET node == BinaryExpr(Top.op, Top.expr, ret)
           caller == stack[Len(stack) - 1]
       IN  stack' = Append(SubSeq(stack, 1, Len(stack) - 2),
                           [caller EXCEPT !.at = "loop", !.expr = node])
    /\ ret' = NoReturn
    /\ UNCHANGED <<pc, current_, parserError, calls, wild, fault, ast, printed>>
    /\ Unchanged

\* lines 259, 187 and 364: the outermost parsePrecedence has returned, and
\* parse() hands its result to main
ParseReturn ==
    /\ pc = "parsing"
    /\ ret # NoReturn
    /\ stack = <<>>
    /\ ast' = ret
    /\ ret' = NoReturn
    /\ pc' = "parsed"
    /\ UNCHANGED <<current_, parserError, stack, calls, wild, fault, printed>>
    /\ Unchanged

\* lines 365-368: skip a line the parser failed on, evaluate and print otherwise
Evaluate ==
    /\ pc = "parsed"
    /\ printed' = IF parserError THEN NoOutput ELSE EvaluateExpression(ast)
    /\ pc' = "read"
    /\ UNCHANGED <<parserVars, fault, ast>>
    /\ Unchanged

----------------------------------------------------------------------------
(* Specifications.                                                         *)

Parse ==
    \/ ParseCall
    \/ PrefixMissing
    \/ PrefixPrimary
    \/ PrefixUnary
    \/ PrefixUnaryOverflow
    \/ PreviousFault
    \/ InfixBinary
    \/ InfixMissing
    \/ PrecedenceReturn
    \/ UnaryReturn
    \/ BinaryReturn
    \/ ParseReturn

Next == ReadLine \/ LexLine \/ Parse \/ Evaluate

\* the program: main() reading lines of at most MaxLen characters
Spec == Init /\ [][Next]_vars

\* a Tokenizer built for a source of at most MaxLen characters
TokenizerInit ==
    /\ pc = "tokenizer"
    /\ line \in Lines
    /\ FreshTokenizer
    /\ FreshParser
    /\ FreshResult

TokenizerSpec == TokenizerInit /\ [][LexCall]_vars

\* the lexeme the tokenizer gives a token of a type
LexemeOf(type, digit) ==
    CASE type = "number" -> <<digit>>
      [] type = "plus"   -> <<"+">>
      [] type = "minus"  -> <<"-">>
      [] type = "star"   -> <<"*">>
      [] type = "slash"  -> <<"/">>
      [] type = "eof"    -> <<NUL>>

DigitOf(i) == <<"1", "2", "3", "4", "5", "6", "7", "8", "9">>[((i - 1) % 9) + 1]

\* the token sequences lex() returns without an error: any tokens, then
\* EndOfInput.  The number at place i is the digit i.
TokenSequences ==
    {[i \in 1..(Len(k) + 1) |->
         IF i <= Len(k) THEN Token(k[i], LexemeOf(k[i], DigitOf(i)))
                        ELSE Token("eof", <<NUL>>)] :
       k \in UNION {[1..n -> TokenType \ {"eof"}] : n \in 0..MaxTokens}}

\* a PrattParser built for such a sequence
ParserInit ==
    /\ pc = "parse"
    /\ line = <<>>
    /\ tokens_ \in TokenSequences
    /\ tokenizerError = FALSE
    /\ printedColumn = NoColumn
    /\ lexReturns = <<tokens_>>
    /\ FreshParser
    /\ FreshResult

ParserSpec == ParserInit /\ [][Parse]_vars

----------------------------------------------------------------------------
(* What the claims compare the program with.                               *)

\* lex() has returned for the current line or source
Lexed == lexReturns # <<>>

RECURSIVE Scan(_, _, _)
\* The scanner as described: blanks are skipped, a digit starts a number
\* lexeme, each operator character outside a number lexeme is one token, any
\* other character outside a number lexeme is the error, and scanning goes on
\* with the character right after each token.
Scan(src, it, toks) ==
    IF ~(it < Len(src))
       THEN [tokens |-> Append(toks, Token("eof", <<NUL>>)),
             hadError |-> FALSE, position |-> NoPosition]
       ELSE LET c == src[it + 1] IN
            IF IsSpace(c)
               THEN Scan(src, it + 1, toks)
            ELSE IF IsDigit(c)
               THEN LET stop == LexNumber(src, it) IN
                    Scan(src, stop, Append(toks, Token("number", SubSeq(src, it + 1, stop))))
            ELSE IF IsOperator(c)
               THEN Scan(src, it + 1, Append(toks, Token(OperatorType(c), <<c>>)))
            ELSE [tokens |-> toks, hadError |-> TRUE, position |-> it]

Described(src) == Scan(src, 0, <<>>)

AllDigits(s) == \A i \in 1..Len(s) : IsDigit(s[i])

\* ('e' ('+'|'-')? digit{m,})?
ExponentShape(r, m) ==
    \/ r = <<>>
    \/ /\ r[1] = "e"
       /\ LET t == Tail(r) IN
             \/ Len(t) >= m /\ AllDigits(t)
             \/ /\ t # <<>>
                /\ t[1] \in {"+", "-"}
                /\ Len(Tail(t)) >= m
                /\ AllDigits(Tail(t))

\* ('.' digit{m,})? followed by the exponent
FractionShape(r, m) ==
    \/ ExponentShape(r, m)
    \/ /\ r # <<>>
       /\ r[1] = "."
       /\ \E b \in m..(Len(r) - 1) :
             /\ AllDigits(SubSeq(r, 2, b + 1))
             /\ ExponentShape(SubSeq(r, b + 2, Len(r)), m)

\* digit+ ('.' digit{m,})? ('e' ('+'|'-')? digit{m,})?
NumberShape(s, m) ==
    \E a \in 1..Len(s) :
        /\ AllDigits(SubSeq(s, 1, a))
        /\ FractionShape(SubSeq(s, a + 1, Len(s)), m)

IsSubstring(s, src) ==
    \E p \in 0..(Len(src) - Len(s)) : SubSeq(src, p + 1, p + Len(s)) = s

\* every token kept by the tokenizer or returned by a call of lex()
ProducedTokens ==
    {tokens_[i] : i \in 1..Len(tokens_)}
        \cup UNION {{lexReturns[j][i] : i \in 1..Len(lexReturns[j])} : j \in 1..Len(lexReturns)}

RECURSIVE WellFormedFrom(_, _, _)
\* unary (binop unary)* EndOfInput, with unary := (Plus|Minus)* Number
WellFormedFrom(k, i, operand) ==
    IF i > Len(k) THEN FALSE
    ELSE IF operand
       THEN CASE k[i] \in {"plus", "minus"} -> WellFormedFrom(k, i + 1, TRUE)
              [] k[i] = "number" -> WellFormedFrom(k, i + 1, FALSE)
              [] OTHER -> FALSE
    ELSE CASE k[i] \in {"plus", "minus", "star", "slash"} -> WellFormedFrom(k, i + 1, TRUE)
           [] k[i] = "eof" -> i = Len(k)
           [] OTHER -> FALSE

WellFormed(toks) == WellFormedFrom(Kinds(toks), 1, TRUE)

Failed == [ok |-> FALSE, tree |-> NULL, next |-> 0]

RECURSIVE GrammarUnary(_, _)
\* unary := (Plus|Minus) unary | Number, read at place i
GrammarUnary(toks, i) ==
    IF i > Len(toks) THEN Failed
    ELSE IF toks[i].type_ \in {"plus", "minus"}
       THEN LET r == GrammarUnary(toks, i + 1) IN
            IF r.ok THEN [r EXCEPT !.tree = UnaryExpr(toks[i].type_, r.tree)] ELSE Failed
    ELSE IF toks[i].type_ = "number"
       THEN [ok |-> TRUE, tree |-> LiteralExpr(Strtod(toks[i].lexeme_)), next |-> i + 1]
    ELSE Failed

RECURSIVE GrammarTermRest(_, _)
\* (('*'|'/') unary)* after the operand left, grouping to the left
GrammarTermRest(toks, left) ==
    IF toks[left.next].type_ \in {"star", "slash"}
       THEN LET r == GrammarUnary(toks, left.next + 1) IN
            IF r.ok
               THEN GrammarTermRest(toks,
                        [r EXCEPT !.tree = BinaryExpr(toks[left.next].type_, left.tree, r.tree)])
               ELSE left
       ELSE left

GrammarTerm(toks, i) ==
    LET u == GrammarUnary(toks, i) IN
    IF u.ok THEN GrammarTermRest(toks, u) ELSE Failed

RECURSIVE GrammarExprRest(_, _)
\* (('+'|'-') term)* after the operand left, grouping to the left
GrammarExprRest(toks, left) ==
    IF toks[left.next].type_ \in {"plus", "minus"}
       THEN LET r == GrammarTerm(toks, left.next + 1) IN
            IF r.ok
               THEN GrammarExprRest(toks,
                        [r EXCEPT !.tree = BinaryExpr(toks[left.next].type_, left.tree, r.tree)])
               ELSE left
       ELSE left

\* the longest expression of the standard grammar at the head of toks, and
\* the place of the token after it
GrammarExpr(toks) ==
    LET t == GrammarTerm(toks, 1) IN
    IF t.ok THEN GrammarExprRest(toks, t) ELSE Failed

\* a complete expression followed by a token that cannot continue it
TrailingTokens(toks) ==
    /\ toks # <<>>
    /\ toks[Len(toks)].type_ = "eof"
    /\ GrammarExpr(toks).ok
    /\ toks[GrammarExpr(toks).next].type_ = "number"

\* tokens_[current_ - 1] names this place
PreviousIndex(cur) == cur - 1

InBounds(index) == 0 <= index /\ index < Len(tokens_)

----------------------------------------------------------------------------
(* Claims.                                                                 *)

\* C1: parsing a token sequence that lex() returned without an error ends
\* after at most as many parsePrecedence calls as there are tokens: no call
\* recurses without the cursor having advanced, and the recursion does not run
\* away.  (The sequence [EndOfInput], whose first read is out of bounds, is
\* left to C10.)
C1_ParseCallsBounded ==
    (Lexed /\ ~tokenizerError /\ tokens_[1].type_ # "eof")
        => (calls <= Len(tokens_) /\ fault # "stack overflow")

\* C2: when the line holds no erroneous character, lex() returns exactly the
\* tokens of the scanner as described, so every + - * / outside a number
\* lexeme is one token in source order; in particular digit, operator, digit
\* gives Number, that operator, Number, EndOfInput.
C2_OperatorsBecomeTokens ==
    /\ (Lexed /\ ~Described(line).hadError)
           => lexReturns[1] = Described(line).tokens
    /\ (Lexed /\ Len(line) = 3 /\ IsDigit(line[1]) /\ IsOperator(line[2]) /\ IsDigit(line[3]))
           => Kinds(lexReturns[1]) = <<"number", OperatorType(line[2]), "number", "eof">>

\* C3: lex() sets its error flag exactly when the line holds a character that
\* is no blank, no operator and outside every number lexeme; it then reports
\* the zero-based column of the first such character and returns the tokens
\* scanned before it, without EndOfInput.
C3_LexicalError ==
    Lexed =>
        /\ tokenizerError = Described(line).hadError
        /\ tokenizerError =>
              /\ printedColumn = Described(line).position
              /\ lexReturns[1] = Described(line).tokens

\* C4: for a well-formed token sequence the parser neither fails nor stops
\* the process, and parse() returns the tree of the standard grammar: * and /
\* bind tighter than binary + and -, equal precedence groups to the left, a
\* prefix sign applies to the operand right after it.
C4_StandardTree ==
    WellFormed(tokens_) =>
        /\ pc # "crashed"
        /\ ~parserError
        /\ pc = "parsed" => ast = GrammarExpr(tokens_).tree

\* C4 witness: the parse of a - b - c has returned, grouped to the left
C4_Witness ==
    /\ pc = "parsed"
    /\ Kinds(tokens_) = <<"number", "minus", "number", "minus", "number", "eof">>
    /\ ast = BinaryExpr("minus",
                 BinaryExpr("minus", LiteralExpr(Value(1, 1)), LiteralExpr(Value(3, 1))),
                 LiteralExpr(Value(5, 1)))

\* C5: once the parser has set its error flag, no step of the parse consumes
\* a token, calls parsePrecedence or returns a node, and parse() hands main a
\* null tree.
C5_FirstErrorAborts ==
    [][(pc = "parsing" /\ parserError)
          => /\ current_' = current_
             /\ calls' = calls
             /\ ret' \in {NULL, NoReturn}
             /\ ast' = NULL]_vars

\* C6: a well-formed expression followed by a token that cannot continue it
\* parses to the tree of the leading expression, without an error and without
\* the loop invoking an infix action the token's rule does not have.
C6_TrailingTokensIgnored ==
    (Lexed /\ ~tokenizerError /\ TrailingTokens(tokens_)) =>
        /\ fault = "none"
        /\ ~parserError
        /\ pc = "parsed" => ast = GrammarExpr(tokens_).tree

\* C7: a line the tokenizer failed on is never parsed; a line the tokenizer or
\* the parser failed on is never evaluated and prints no result; and the
\* process is not stopped on such a line, so the loop reads the next one.
C7_ErrorsScopedToLine ==
    /\ tokenizerError => (calls = 0 /\ pc \notin {"parse", "parsing", "parsed"})
    /\ (tokenizerError \/ parserError) => (printed = NoOutput /\ pc # "crashed")

\* C8 as claimed: every Number token has a lexeme of the shape
\* digit+ ('.' digit+)? ('e' sign? digit+)? that is a substring of the source.
C8_StrictNumberLexemes ==
    \A t \in ProducedTokens :
        t.type_ = "number" => (NumberShape(t.lexeme_, 1) /\ IsSubstring(t.lexeme_, line))

\* C8 as amended: every Number token has a lexeme of the shape
\* digit+ ('.' digit*)? ('e' sign? digit*)? that is a substring of the source.
C8_NumberLexemes ==
    \A t \in ProducedTokens :
        t.type_ = "number" => (NumberShape(t.lexeme_, 0) /\ IsSubstring(t.lexeme_, line))

\* C8 witness: lex() has produced a Number whose exponent has a sign and no digit
C8_Witness ==
    /\ Lexed
    /\ Token("number", <<"1", "e", "-">>) \in ProducedTokens

\* C9: every call of lex() for the same source returns the same tokens
C9_LexRepeatable ==
    \A i \in 1..Len(lexReturns) : lexReturns[i] = lexReturns[1]

\* C10: every token the parser reads lies inside the token sequence: peek()
\* reads index current_, which never passes EndOfInput, and the previous() of
\* an advance() reads the index before the advanced cursor.
C10_AccessesInBounds ==
    pc = "parsing" =>
        /\ InBounds(current_)
        /\ \A i \in 1..current_ : tokens_[i].type_ # "eof"
        /\ AtAdvance => InBounds(PreviousIndex(Advanced))

====
